---- MODULE Spec2Model ----
(***************************************************************************)
(* Workset lease/assignment subsystem of the annotation tool               *)
(* (src/src/workset_auto_assigner.py, with the blob-store wrappers of      *)
(* src/src/firebase_storage.py, the materializer of                        *)
(* src/src/workset_utils.py and the annotation flow of                     *)
(* src/src/annotator_workset_manager.py).                                  *)
(*                                                                         *)
(* The blob store is the shared state.  Every session (a browser session   *)
(* of one worker running request_new_workset) is a process whose steps are *)
(* the individual store operations of the code: a step is one get/list     *)
(* (with the local computation that follows it) or one put/delete.         *)
(***************************************************************************)
EXTENDS Integers, Sequences, FiniteSets, TLC

\* ------------------------------------------------------------------ bounds
NumSessions == 2      \* concurrent sessions (processes)
NumWorksets == 2      \* the code scans workset_001..workset_100
MaxTime     == 3      \* the clock runs 0..MaxTime (minutes)
MaxFaults   == 2      \* store-operation failures injected in one run

\* ------------------------------------------------------- program constants
UsageCap       == 3   \* "usage_count < 3", "new_count > 3"
max_attempts   == 5   \* request_new_workset: max_attempts = 5
lease_duration == 2   \* timedelta(minutes=2)

Sessions == 1..NumSessions
\* Workers 1 and 2 own the sessions; workers 3 and 4 are earlier annotators
\* whose Task Records may already hold a finished workset.
Workers  == 1..4
Worksets == 1..NumWorksets
Statuses == {"not_started", "in_progress", "completed"}
NoWorkset == 0

VARIABLES
    \* ---- the blob store
    records,       \* annotators/<u>/<u>_record.csv : worker -> sequence of rows
    ledgerExists,  \* system/workset_usage_stats.json exists
    ledger,        \* its 'workset_usage' dict: a function on the stored keys
    comps,         \* system/locks/competition_<ws>_<id>.json : set of records
    locks,         \* system/locks/<ws>_lock.json : set of records, one per ws
    files,         \* coding_result/<u>/<ws>.csv : set of <<worker, workset>>
    auditLog,      \* system/workset_assignment_log.csv : sequence of entries
    \* ---- the environment
    now,           \* the wall clock, in minutes
    faults,        \* store failures still to be injected
    \* ---- the sessions
    user,          \* session -> the worker (username) logged in
    ses            \* session -> the locals of its request_new_workset call:
                   \*   pc        position in the code
                   \*   attempt   loop variable of the retry loop
                   \*   cand      available_workset
                   \*   myComp    competition_data written by the acquire
                   \*   seen      competitors read by _win_competition
                   \*   won       what _win_competition returned
                   \*   leaseExp  expires_at of the formal lock it wrote
                   \*   expected  current_usage of the commit
                   \*   ledBuf    workset_usage between download and upload
                   \*   recBuf    record_df between download and upload
                   \*   relSeen   current_lock read by the release
                   \*   failedAt  the commit step that failed: none, d or e
                   \*   okCommit  what _complete_workset_assignment returned
                   \*   preLedger ledger count of cand when the commit began
                   \*   preScan   full-scan count of cand when the commit began
                   \*   hadRow    the worker had a row for cand at that time
                   \*   incOk     the ledger increment of the commit succeeded
                   \*   rbApplied a rollback decrement was stored
                   \*   result    what request_new_workset returned
                   \*   doneAtCall the worksets the worker's record held as
                   \*              completed when the call began
                   \*   usage     the dict a ledger get or regenerate returned
                   \*   recAt     the Task Records when it ran
                   \*   stored    the persisted ledger when it returned (of an
                   \*             increment or decrement run alone: when it
                   \*             was called)
                   \*   rejected  the worksets of the attempts of this call
                   \*             that a defensive check aborted
                   \*   shown     the message request_new_workset showed
                   \*             when it returned

storeVars == <<records, ledgerExists, ledger, comps, locks, files, auditLog>>
vars      == <<records, ledgerExists, ledger, comps, locks, files, auditLog,
               now, faults, user, ses>>

\* ----------------------------------------------------------- dict helpers
EmptyDict == <<>>
DictGet(d, k) == IF k \in DOMAIN d THEN d[k] ELSE 0
DictPut(d, k, v) == [x \in (DOMAIN d) \cup {k} |-> IF x = k THEN v ELSE d[x]]
DictDel(d, k) == [x \in (DOMAIN d) \ {k} |-> d[x]]

NoComp == [workset |-> NoWorkset, owner |-> 0, ms |-> 0, rnd |-> 0, timestamp |-> 0]
NoLock == [workset |-> NoWorkset, owner |-> 0, ms |-> 0, rnd |-> 0, expires_at |-> 0]

\* --------------------------------------------------- store operation results
\* firebase_storage.upload: upload_from_string and then blob.patch() run in one
\* try block; "fail" is a failure before the content is stored, "lost" is a
\* failure of blob.patch() after it: the content is stored and False returned.
UploadOutcomes == IF faults > 0 THEN {"ok", "fail", "lost"} ELSE {"ok"}
\* firebase_storage.download / list_files / delete: an exception is swallowed
\* and None / [] / False returned.
ReadOutcomes   == IF faults > 0 THEN {"ok", "fail"} ELSE {"ok"}
DeleteOutcomes == IF faults > 0 THEN {"ok", "fail"} ELSE {"ok"}
Stored(o)   == o \in {"ok", "lost"}
Spend(o)    == IF o = "ok" THEN faults ELSE faults - 1

\* download_csv(record_path): None (here the empty sequence) when the read fails
\* or the object is missing.
download_csv(u, o) == IF o = "ok" THEN records[u] ELSE <<>>

RowsOf(rec, k) == {i \in 1..Len(rec) : rec[i].workset = k}
HasRow(rec, k) == RowsOf(rec, k) # {}

\* A faulty variant of the pending check: not_started rows overlooked.
HasPendingInProgressOnly(rec) ==
    \E i \in 1..Len(rec) : rec[i].status = "in_progress"

\* _has_pending_worksets on the downloaded record
HasPending(rec) ==
    \E i \in 1..Len(rec) : rec[i].status \in {"in_progress", "not_started"}

\* _has_completed_workset on the downloaded record
HasCompleted(rec, k) ==
    \E i \in 1..Len(rec) : rec[i].workset = k /\ rec[i].status = "completed"

\* The scans list annotators/ and download every *_record.csv; unread is the
\* set of workers whose record the scan did not get (a failed download, or all
\* of them when list_files failed and returned []).
ScanSets == IF faults > 0 THEN {{}} \cup {{w} : w \in Workers} \cup {Workers}
            ELSE {{}}

\* A faulty variant of the real-time count: only completed rows counted.
RealTimeCountCompleted(k, unread) ==
    Cardinality({w \in Workers \ unread : HasCompleted(records[w], k)})

\* _get_real_time_usage_count
RealTimeUsageCount(k, unread) ==
    Cardinality({w \in Workers \ unread : HasRow(records[w], k)})

\* A faulty variant of the scan count: one per row instead of one per worker.
ScanCountRows(k, unread) ==
    Cardinality(UNION {{<<w, i>> : i \in RowsOf(records[w], k)} :
                          w \in Workers \ unread})

\* _generate_usage_statistics: the usage_count dict it builds, one per worker
\* for every id among the unique worksets of the worker's record
UniqueWorksets(rec) == {rec[i].workset : i \in 1..Len(rec)}
ScanCount(k, unread) ==
    Cardinality({w \in Workers \ unread : k \in UniqueWorksets(records[w])})

\* A faulty variant of the regeneration: the counts added to the stored ones
\* (usage_count not reset to {}).
GenerateUsageAccumulating(unread) ==
    [k \in {x \in Worksets : ScanCount(x, unread) + DictGet(ledger, x) > 0} |->
        ScanCount(k, unread) + DictGet(ledger, k)]

GenerateUsage(unread) ==
    [k \in {x \in Worksets : ScanCount(x, unread) > 0} |-> ScanCount(k, unread)]

\* _get_usage_statistics: the ledger as read, or regenerated from a scan when
\* the object is missing or its download failed.  o: the ledger download,
\* unread: the records the scan missed, uo: the upload of the regenerated ledger
\* (its result is ignored by the code).
Regenerates(o) == ~(o = "ok" /\ ledgerExists)
GetUsageStatistics(o, unread) ==
    IF Regenerates(o) THEN GenerateUsage(unread) ELSE ledger
\* A faulty variant of the get: the ledger regenerated and stored on every get.
LedgerAfterGetAlways(o, unread, uo) == GenerateUsage(unread)

LedgerAfterGet(o, unread, uo) ==
    IF Regenerates(o) /\ Stored(uo) THEN GenerateUsage(unread) ELSE ledger
LedgerExistsAfterGet(o, uo) ==
    ledgerExists \/ (Regenerates(o) /\ Stored(uo))

\* Number of injected failures of a step; a step injects at most one.
Bad(o)       == IF o = "ok" THEN 0 ELSE 1
BadScan(u)   == IF u = {} THEN 0 ELSE 1
GetChoices ==
    {c \in [o : ReadOutcomes, unread : ScanSets, uo : UploadOutcomes] :
        /\ Bad(c.o) + BadScan(c.unread) + Bad(c.uo) <= 1
        /\ (~Regenerates(c.o)) => (c.unread = {} /\ c.uo = "ok")
        /\ c.uo # "lost"}
GetBad(c) == Bad(c.o) + BadScan(c.unread) + Bad(c.uo)

\* A faulty variant of the candidates: the completed worksets not skipped.
EligibleBelowCapOnly(usage, rec) ==
    {k \in Worksets : DictGet(usage, k) < UsageCap}

\* _find_available_workset: the first id in numerical order whose usage is
\* below the cap and that the worker has not completed
Eligible(usage, rec) ==
    {k \in Worksets : DictGet(usage, k) < UsageCap /\ ~HasCompleted(rec, k)}
SetMin(S) == CHOOSE x \in S : \A y \in S : x <= y
FindAvailableWorkset(usage, rec) ==
    IF Eligible(usage, rec) = {} THEN NoWorkset ELSE SetMin(Eligible(usage, rec))

\* ------------------------------------------------------------ lock manager
\* The competition id "<username>_<ms>_<random>" and its file path
\* competition_<workset>_<id>.json; list_files returns the paths of one workset
\* in the lexicographic order of the ids.
CidLess(a, b) ==
    \/ a.owner < b.owner
    \/ a.owner = b.owner /\ a.ms < b.ms
    \/ a.owner = b.owner /\ a.ms = b.ms /\ a.rnd < b.rnd
SameCid(a, b) == a.owner = b.owner /\ a.ms = b.ms /\ a.rnd = b.rnd

\* A faulty variant of the order: among equal timestamps the later id first.
BeforeTiesReversed(a, b) ==
    \/ a.timestamp < b.timestamp
    \/ a.timestamp = b.timestamp /\ CidLess(b, a)

\* competitors.sort(key=timestamp) is stable: among equal timestamps the
\* listing order stays; competitors[0] is the winner.
Before(a, b) ==
    \/ a.timestamp < b.timestamp
    \/ a.timestamp = b.timestamp /\ CidLess(a, b)
Winner(competitors) ==
    CHOOSE c \in competitors : \A d \in competitors \ {c} : Before(c, d)

\* _win_competition
WinCompetition(competitors, username, comp) ==
    /\ competitors # {}
    /\ Winner(competitors).owner = username
    /\ SameCid(Winner(competitors), comp)

CompsOf(k) == {c \in comps : c.workset = k}
\* The competition records a listing-and-download pass did not get.
CompScanSets(visible) ==
    IF faults > 0 THEN {{}} \cup {{c} : c \in visible} \cup {visible} ELSE {{}}

LockOf(k) == IF \E l \in locks : l.workset = k
             THEN CHOOSE l \in locks : l.workset = k ELSE NoLock

\* A faulty variant of the release condition: any lock read is deleted.
ReleaseUnchecked(current_lock, username) == current_lock # NoLock

\* _release_workset_lock: "current_lock and current_lock.get('owner') == username"
ReleaseOwnerCheck(current_lock, username) ==
    current_lock # NoLock /\ current_lock.owner = username

\* A faulty variant of the expiry test: the comparison the wrong way round.
ExpiredInverted(lock, current_time) == current_time < lock.expires_at

\* A faulty variant of the expiry test: a lock deleted at its expiry time.
ExpiredAtDeadline(lock, current_time) == current_time >= lock.expires_at

\* cleanup_expired_locks: "current_time > expires_at"
Expired(lock, current_time) == current_time > lock.expires_at

\* ---------------------------------------------------------------- sessions
Fresh ==
    [pc |-> "idle", attempt |-> 0, cand |-> NoWorkset, myComp |-> NoComp,
     seen |-> {}, won |-> FALSE, leaseExp |-> 0, expected |-> 0,
     ledBuf |-> EmptyDict, recBuf |-> <<>>, relSeen |-> NoLock,
     failedAt |-> "none", okCommit |-> FALSE, preLedger |-> 0, preScan |-> 0,
     hadRow |-> FALSE, incOk |-> FALSE, rbApplied |-> FALSE,
     result |-> NoWorkset, doneAtCall |-> {}, usage |-> EmptyDict,
     recAt |-> <<>>, stored |-> EmptyDict, shown |-> "none", rejected |-> {}]

\* A faulty variant of the retry loop: no limit on the attempts.
RetryUnbounded(s) ==
    [Fresh EXCEPT !.pc = "find", !.attempt = s.attempt + 1,
                  !.doneAtCall = s.doneAtCall, !.rejected = s.rejected]

\* The locals at the top of the next iteration of the retry loop, or at the
\* return after the last one.
Retry(s) ==
    IF s.attempt + 1 >= max_attempts
    THEN [Fresh EXCEPT !.pc = "done", !.attempt = s.attempt + 1,
                       !.result = NoWorkset, !.doneAtCall = s.doneAtCall,
                       !.shown = "unable"]
    ELSE [Fresh EXCEPT !.pc = "find", !.attempt = s.attempt + 1,
                       !.doneAtCall = s.doneAtCall, !.rejected = s.rejected]

Set(p, s) == ses' = [ses EXCEPT ![p] = s]

\* request_new_workset, lines 26-35: the pending-work check
CompletedBy(w) == {k \in Worksets : HasCompleted(records[w], k)}
RequestNewWorkset(p) ==
    /\ ses[p].pc = "idle"
    /\ \E o \in ReadOutcomes :
        /\ faults' = Spend(o)
        /\ IF HasPending(download_csv(user[p], o))
           THEN Set(p, [Fresh EXCEPT !.pc = "done", !.result = NoWorkset,
                                     !.doneAtCall = CompletedBy(user[p]),
                                     !.shown = "unfinished"])
           ELSE Set(p, [Fresh EXCEPT !.pc = "find",
                                     !.doneAtCall = CompletedBy(user[p])])
    /\ UNCHANGED <<storeVars, now, user>>

\* _find_available_workset
FindAvailable(p) ==
    /\ ses[p].pc = "find"
    /\ \E c \in GetChoices, ro \in ReadOutcomes :
        /\ GetBad(c) + Bad(ro) <= 1
        /\ faults' = faults - (GetBad(c) + Bad(ro))
        /\ ledger' = LedgerAfterGet(c.o, c.unread, c.uo)
        /\ ledgerExists' = LedgerExistsAfterGet(c.o, c.uo)
        /\ LET k == FindAvailableWorkset(GetUsageStatistics(c.o, c.unread),
                                         download_csv(user[p], ro))
           IN IF k = NoWorkset
              THEN Set(p, [Fresh EXCEPT !.pc = "done", !.result = NoWorkset,
                                        !.attempt = ses[p].attempt,
                                        !.doneAtCall = ses[p].doneAtCall,
                                        !.shown = "no_worksets"])
              ELSE Set(p, [ses[p] EXCEPT !.pc = "announce", !.cand = k])
    /\ UNCHANGED <<records, comps, locks, files, auditLog, now, user>>

\* random.randint(10000, 99999) of the competition id: a draw from a small
\* range; two ids of one worker and one millisecond never collide.
RandomIds == Sessions

\* _try_acquire_workset_lock, lines 215-228: write the competition record
Announce(p) ==
    /\ ses[p].pc = "announce"
    /\ \E o \in UploadOutcomes, r \in RandomIds :
        LET c == [workset |-> ses[p].cand, owner |-> user[p], ms |-> now,
                  rnd |-> r, timestamp |-> now]
        IN /\ c \notin comps
           /\ \A q \in Sessions : ses[q].myComp # c
           /\ faults' = Spend(o)
           /\ comps' = IF Stored(o) THEN comps \cup {c} ELSE comps
           /\ IF o = "ok"
              THEN Set(p, [ses[p] EXCEPT !.pc = "settle", !.myComp = c])
              ELSE Set(p, Retry(ses[p]))
    /\ UNCHANGED <<records, ledgerExists, ledger, locks, files, auditLog, now, user>>

\* _win_competition, called at line 234 after the settle sleep
Settle(p) ==
    /\ ses[p].pc = "settle"
    /\ \E unread \in CompScanSets(CompsOf(ses[p].cand)) :
        LET competitors == CompsOf(ses[p].cand) \ unread
            w == WinCompetition(competitors, user[p], ses[p].myComp)
        IN /\ faults' = faults - BadScan(unread)
           /\ Set(p, [ses[p] EXCEPT !.seen = competitors, !.won = w,
                                    !.pc = IF w THEN "lockput" ELSE "delown"])
    /\ UNCHANGED <<storeVars, now, user>>

\* lines 236-246: the winner writes the formal lock
WriteLock(p) ==
    /\ ses[p].pc = "lockput"
    /\ \E o \in UploadOutcomes :
        LET l == [workset |-> ses[p].cand, owner |-> user[p],
                  ms |-> ses[p].myComp.ms, rnd |-> ses[p].myComp.rnd,
                  expires_at |-> now + lease_duration]
        IN /\ faults' = Spend(o)
           /\ locks' = IF Stored(o)
                       THEN {x \in locks : x.workset # ses[p].cand} \cup {l}
                       ELSE locks
           /\ IF o = "ok"
              THEN Set(p, [ses[p] EXCEPT !.pc = "cleanup",
                                         !.leaseExp = now + lease_duration])
              ELSE Set(p, [ses[p] EXCEPT !.pc = "delown"])
    /\ UNCHANGED <<records, ledgerExists, ledger, comps, files, auditLog, now, user>>

\* A faulty variant of the cleanup: the records of every workset deleted.
CleanupEveryWorkset(p) ==
    /\ ses[p].pc = "cleanup"
    /\ \E kept \in CompScanSets(CompsOf(ses[p].cand)) :
        /\ faults' = faults - BadScan(kept)
        /\ comps' = kept
        /\ Set(p, [ses[p] EXCEPT !.pc = "verify", !.seen = {}])
    /\ UNCHANGED <<records, ledgerExists, ledger, locks, files, auditLog, now, user>>

\* _cleanup_competition_files: the winner deletes every competition record of
\* the workset that its listing returned and whose delete succeeded
CleanupCompetition(p) ==
    /\ ses[p].pc = "cleanup"
    /\ \E kept \in CompScanSets(CompsOf(ses[p].cand)) :
        /\ faults' = faults - BadScan(kept)
        /\ comps' = comps \ (CompsOf(ses[p].cand) \ kept)
        /\ Set(p, [ses[p] EXCEPT !.pc = "verify", !.seen = {}])
    /\ UNCHANGED <<records, ledgerExists, ledger, locks, files, auditLog, now, user>>

\* lines 251-253: the loser deletes its own competition record
DeleteOwn(p) ==
    /\ ses[p].pc = "delown"
    /\ \E o \in DeleteOutcomes :
        /\ faults' = Spend(o)
        /\ comps' = IF o = "ok" THEN comps \ {ses[p].myComp} ELSE comps
        /\ Set(p, Retry(ses[p]))
    /\ UNCHANGED <<records, ledgerExists, ledger, locks, files, auditLog, now, user>>

\* ------------------------------------------------------------------ commit
\* A faulty variant of the exit of the protected block: the release left out
\* when the attempt failed.
ToReleaseOnSuccessOnly(s, ok) ==
    [s EXCEPT !.pc = IF ok THEN "rel_read" ELSE "rel_end", !.okCommit = ok]

ToRelease(s, ok) == [s EXCEPT !.pc = "rel_read", !.okCommit = ok]
\* The abort of an attempt by a defensive check (the full-scan count at the
\* cap, the cap check of the increment): the candidate is noted.
Reject(s) == ToRelease([s EXCEPT !.rejected = @ \cup {s.cand}], FALSE)

\* _is_workset_still_available, line 48
Verify(p) ==
    /\ ses[p].pc = "verify"
    /\ \E c \in GetChoices :
        /\ faults' = faults - GetBad(c)
        /\ ledger' = LedgerAfterGet(c.o, c.unread, c.uo)
        /\ ledgerExists' = LedgerExistsAfterGet(c.o, c.uo)
        /\ IF DictGet(GetUsageStatistics(c.o, c.unread), ses[p].cand) < UsageCap
           THEN Set(p, [ses[p] EXCEPT !.pc = "c5a"])
           ELSE Set(p, ToRelease(ses[p], FALSE))
    /\ UNCHANGED <<records, comps, locks, files, auditLog, now, user>>

\* _complete_workset_assignment, lines 336-340: the completed-workset check
CheckCompleted(p) ==
    /\ ses[p].pc = "c5a"
    /\ \E o \in ReadOutcomes :
        /\ faults' = Spend(o)
        /\ IF HasCompleted(download_csv(user[p], o), ses[p].cand)
           THEN Set(p, ToRelease(ses[p], FALSE))
           ELSE Set(p, [ses[p] EXCEPT
                    !.pc = "c5b",
                    !.preLedger = DictGet(ledger, ses[p].cand),
                    !.preScan = RealTimeUsageCount(ses[p].cand, {}),
                    !.hadRow = HasRow(records[user[p]], ses[p].cand)])
    /\ UNCHANGED <<storeVars, now, user>>

\* lines 342-347: the real-time count
RealTimeCount(p) ==
    /\ ses[p].pc = "c5b"
    /\ \E unread \in ScanSets :
        LET n == RealTimeUsageCount(ses[p].cand, unread)
        IN /\ faults' = faults - BadScan(unread)
           /\ IF n >= UsageCap
              THEN Set(p, Reject(ses[p]))
              ELSE Set(p, [ses[p] EXCEPT !.pc = "c5c_read", !.expected = n])
    /\ UNCHANGED <<storeVars, now, user>>

\* _update_usage_statistics_safely, lines 395-414: read the ledger, regenerate
\* it when it is off by more than one, add one, refuse above the cap
\* A faulty variant of the cap check: a count of exactly the cap refused too.
ExceedsLimitAtCap(new_count) == new_count >= UsageCap

\* A faulty variant of the consistency test: a difference of two tolerated.
InconsistentAboveTwo(in_stats, expected_current_count) ==
    in_stats - expected_current_count > 2 \/ expected_current_count - in_stats > 2

Inconsistent(in_stats, expected_current_count) ==
    in_stats - expected_current_count > 1 \/ expected_current_count - in_stats > 1
ExceedsLimit(new_count) == new_count > UsageCap

IncrementRead(p) ==
    /\ ses[p].pc = "c5c_read"
    /\ \E o \in ReadOutcomes, unread \in ScanSets, uo \in UploadOutcomes :
        LET k    == ses[p].cand
            base == IF o = "ok" /\ ledgerExists THEN ledger ELSE EmptyDict
            regen == Inconsistent(DictGet(base, k), ses[p].expected)
            usage == IF regen THEN GenerateUsage(unread) ELSE base
            new_count == DictGet(usage, k) + 1
        IN /\ Bad(o) + BadScan(unread) + Bad(uo) <= 1
           /\ (~regen) => (unread = {} /\ uo = "ok")
           /\ uo # "lost"
           /\ faults' = faults - (Bad(o) + BadScan(unread) + Bad(uo))
           /\ ledger' = IF regen /\ Stored(uo) THEN usage ELSE ledger
           /\ ledgerExists' = (ledgerExists \/ (regen /\ Stored(uo)))
           /\ IF ExceedsLimit(new_count)
              THEN Set(p, Reject(ses[p]))
              ELSE Set(p, [ses[p] EXCEPT !.pc = "c5c_write",
                                         !.ledBuf = DictPut(usage, k, new_count)])
    /\ UNCHANGED <<records, comps, locks, files, auditLog, now, user>>

\* line 420: upload the incremented ledger
IncrementWrite(p) ==
    /\ ses[p].pc = "c5c_write"
    /\ \E o \in UploadOutcomes :
        /\ faults' = Spend(o)
        /\ ledger' = IF Stored(o) THEN ses[p].ledBuf ELSE ledger
        /\ ledgerExists' = (ledgerExists \/ Stored(o))
        /\ IF o = "ok"
           THEN Set(p, [ses[p] EXCEPT !.pc = "c5d_read", !.ledBuf = EmptyDict,
                                      !.incOk = TRUE])
           ELSE Set(p, ToRelease([ses[p] EXCEPT !.ledBuf = EmptyDict], FALSE))
    /\ UNCHANGED <<records, comps, locks, files, auditLog, now, user>>

\* _add_workset_to_user_record, lines 462-477: download the record, append
NewTask(k) == [workset |-> k, status |-> "not_started", auto |-> TRUE]

AddRowRead(p) ==
    /\ ses[p].pc = "c5d_read"
    /\ \E o \in ReadOutcomes :
        /\ faults' = Spend(o)
        /\ Set(p, [ses[p] EXCEPT !.pc = "c5d_write",
                     !.recBuf = Append(download_csv(user[p], o), NewTask(ses[p].cand))])
    /\ UNCHANGED <<storeVars, now, user>>

\* line 479: upload the record; on failure lines 353-354 roll the ledger back
AddRowWrite(p) ==
    /\ ses[p].pc = "c5d_write"
    /\ \E o \in UploadOutcomes :
        /\ faults' = Spend(o)
        /\ records' = IF Stored(o)
                      THEN [records EXCEPT ![user[p]] = ses[p].recBuf]
                      ELSE records
        /\ IF o = "ok"
           THEN Set(p, [ses[p] EXCEPT !.pc = "c5e", !.recBuf = <<>>])
           ELSE Set(p, [ses[p] EXCEPT !.pc = "rb_read", !.recBuf = <<>>,
                                      !.failedAt = "d"])
    /\ UNCHANGED <<ledgerExists, ledger, comps, locks, files, auditLog, now, user>>

\* create_workset_file (workset_utils.py): download the dataset, upload the
\* worker's copy; on failure lines 357-359 roll back
Materialize(p) ==
    /\ ses[p].pc = "c5e"
    /\ \E o \in ReadOutcomes, uo \in UploadOutcomes :
        /\ Bad(o) + Bad(uo) <= 1
        /\ faults' = faults - (Bad(o) + Bad(uo))
        /\ files' = IF o = "ok" /\ Stored(uo)
                    THEN files \cup {<<user[p], ses[p].cand>>} ELSE files
        /\ IF o = "ok" /\ uo = "ok"
           THEN Set(p, [ses[p] EXCEPT !.pc = "c5f"])
           ELSE Set(p, [ses[p] EXCEPT !.pc = "rb_read", !.failedAt = "e"])
    /\ UNCHANGED <<records, ledgerExists, ledger, comps, locks, auditLog, now, user>>

\* _rollback_usage_statistics, lines 447-451: read and decrement
\* A faulty variant of the decrement: the key kept at zero.
DecrementKeepingKey(usage, k) == DictPut(usage, k, usage[k] - 1)

Decrement(usage, k) ==
    IF usage[k] - 1 <= 0 THEN DictDel(usage, k) ELSE DictPut(usage, k, usage[k] - 1)

AfterLedgerRollback(s) ==
    IF s.failedAt = "e" THEN [s EXCEPT !.pc = "rm_read", !.ledBuf = EmptyDict]
    ELSE ToRelease([s EXCEPT !.ledBuf = EmptyDict], FALSE)

RollbackRead(p) ==
    /\ ses[p].pc = "rb_read"
    /\ \E o \in ReadOutcomes :
        /\ faults' = Spend(o)
        /\ IF o = "ok" /\ ledgerExists /\ ses[p].cand \in DOMAIN ledger
           THEN Set(p, [ses[p] EXCEPT !.pc = "rb_write",
                                      !.ledBuf = Decrement(ledger, ses[p].cand)])
           ELSE Set(p, AfterLedgerRollback(ses[p]))
    /\ UNCHANGED <<storeVars, now, user>>

\* line 454: upload the decremented ledger (the result is not looked at)
RollbackWrite(p) ==
    /\ ses[p].pc = "rb_write"
    /\ \E o \in {x \in UploadOutcomes : x # "lost"} :
        /\ faults' = Spend(o)
        /\ ledger' = IF Stored(o) THEN ses[p].ledBuf ELSE ledger
        /\ Set(p, AfterLedgerRollback([ses[p] EXCEPT !.rbApplied = Stored(o)]))
    /\ UNCHANGED <<records, ledgerExists, comps, locks, files, auditLog, now, user>>

\* _remove_workset_from_user_record, lines 488-494: drop the auto-assigned
\* rows of the workset
WithoutAutoRows(rec, k) ==
    SelectSeq(rec, LAMBDA row : ~(row.workset = k /\ row.auto))

RemoveRowRead(p) ==
    /\ ses[p].pc = "rm_read"
    /\ \E o \in ReadOutcomes :
        /\ faults' = Spend(o)
        /\ IF o = "ok" /\ records[user[p]] # <<>>
           THEN Set(p, [ses[p] EXCEPT !.pc = "rm_write",
                          !.recBuf = WithoutAutoRows(records[user[p]], ses[p].cand)])
           ELSE Set(p, ToRelease(ses[p], FALSE))
    /\ UNCHANGED <<storeVars, now, user>>

\* line 495: upload the record without the rows
RemoveRowWrite(p) ==
    /\ ses[p].pc = "rm_write"
    /\ \E o \in {x \in UploadOutcomes : x # "lost"} :
        /\ faults' = Spend(o)
        /\ records' = IF Stored(o)
                      THEN [records EXCEPT ![user[p]] = ses[p].recBuf]
                      ELSE records
        /\ Set(p, ToRelease([ses[p] EXCEPT !.recBuf = <<>>], FALSE))
    /\ UNCHANGED <<ledgerExists, ledger, comps, locks, files, auditLog, now, user>>

\* A faulty variant of the audit-log step: a failed append undoes the commit.
LogAssignmentStrict(p) ==
    /\ ses[p].pc = "c5f"
    /\ \E o \in ReadOutcomes, uo \in {x \in UploadOutcomes : x # "lost"} :
        /\ Bad(o) + Bad(uo) <= 1
        /\ faults' = faults - (Bad(o) + Bad(uo))
        /\ auditLog' = IF Stored(uo)
                       THEN Append(IF o = "ok" THEN auditLog ELSE <<>>,
                                   <<user[p], ses[p].cand>>)
                       ELSE auditLog
        /\ IF uo = "ok"
           THEN Set(p, ToRelease(ses[p], TRUE))
           ELSE Set(p, [ses[p] EXCEPT !.pc = "rb_read", !.failedAt = "e"])
    /\ UNCHANGED <<records, ledgerExists, ledger, comps, locks, files, now, user>>

\* _log_assignment: download the log, append, upload (best effort)
LogAssignment(p) ==
    /\ ses[p].pc = "c5f"
    /\ \E o \in ReadOutcomes, uo \in {x \in UploadOutcomes : x # "lost"} :
        /\ Bad(o) + Bad(uo) <= 1
        /\ faults' = faults - (Bad(o) + Bad(uo))
        /\ auditLog' = IF Stored(uo)
                       THEN Append(IF o = "ok" THEN auditLog ELSE <<>>,
                                   <<user[p], ses[p].cand>>)
                       ELSE auditLog
        /\ Set(p, ToRelease(ses[p], TRUE))
    /\ UNCHANGED <<records, ledgerExists, ledger, comps, locks, files, now, user>>

\* The Request New Workset button of the page: what it shows for the value
\* request_new_workset returned.
PageMessage(new_workset) ==
    IF new_workset # NoWorkset THEN "assigned" ELSE "no_worksets"

\* ----------------------------------------------------------------- release
\* The return of request_new_workset after the finally block: the workset on
\* a successful commit, the next attempt otherwise.
AfterRelease(s) ==
    IF s.okCommit
    THEN [Fresh EXCEPT !.pc = "done", !.attempt = s.attempt, !.result = s.cand,
                       !.doneAtCall = s.doneAtCall, !.shown = "assigned"]
    ELSE Retry(s)

\* _release_workset_lock, lines 314-318: read the lock and check its owner
ReleaseRead(p) ==
    /\ ses[p].pc = "rel_read"
    /\ \E o \in ReadOutcomes :
        LET current_lock == IF o = "ok" THEN LockOf(ses[p].cand) ELSE NoLock
        IN /\ faults' = Spend(o)
           /\ IF ReleaseOwnerCheck(current_lock, user[p])
              THEN Set(p, [ses[p] EXCEPT !.pc = "rel_del", !.relSeen = current_lock])
              ELSE Set(p, [ses[p] EXCEPT !.pc = "rel_end", !.relSeen = current_lock])
    /\ UNCHANGED <<storeVars, now, user>>

\* A faulty variant of the release: a failed delete ends the call with an
\* error instead of a return.
ReleaseDeleteRaising(p) ==
    /\ ses[p].pc = "rel_del"
    /\ \E o \in DeleteOutcomes :
        /\ faults' = Spend(o)
        /\ locks' = IF o = "ok" THEN {l \in locks : l.workset # ses[p].cand}
                    ELSE locks
        /\ Set(p, [ses[p] EXCEPT !.pc = IF o = "ok" THEN "rel_end" ELSE "error"])
    /\ UNCHANGED <<records, ledgerExists, ledger, comps, files, auditLog, now, user>>

\* line 319: delete_file(lock_path)
ReleaseDelete(p) ==
    /\ ses[p].pc = "rel_del"
    /\ \E o \in DeleteOutcomes :
        /\ faults' = Spend(o)
        /\ locks' = IF o = "ok" THEN {l \in locks : l.workset # ses[p].cand}
                    ELSE locks
        /\ Set(p, [ses[p] EXCEPT !.pc = "rel_end"])
    /\ UNCHANGED <<records, ledgerExists, ledger, comps, files, auditLog, now, user>>

\* lines 52 and 60-62: return the workset, or wait and go round the loop
Continue(p) ==
    /\ ses[p].pc = "rel_end"
    /\ Set(p, AfterRelease(ses[p]))
    /\ UNCHANGED <<storeVars, now, faults, user>>

\* --------------------------------------------------------- annotation flow
FirstWith(rec, st) ==
    CHOOSE i \in 1..Len(rec) :
        /\ rec[i].status = st
        /\ \A j \in 1..(i - 1) : rec[j].status # st
HasStatus(rec, st) == \E i \in 1..Len(rec) : rec[i].status = st

\* _get_next_workset / get_current_workset: the first not_started row becomes
\* in_progress
StartFirst(rec) ==
    IF HasStatus(rec, "not_started")
    THEN [rec EXCEPT ![FirstWith(rec, "not_started")].status = "in_progress"]
    ELSE rec

\* _complete_workset: the first row of the workset becomes completed
FirstRowOf(rec, k) == CHOOSE i \in RowsOf(rec, k) : \A j \in RowsOf(rec, k) : i <= j
MarkCompleted(rec, k) == [rec EXCEPT ![FirstRowOf(rec, k)].status = "completed"]

\* AnnotatorWorksetManager.get_current_workset with no in_progress row
StartWorkset(w) ==
    /\ ~HasStatus(records[w], "in_progress")
    /\ HasStatus(records[w], "not_started")
    /\ records' = [records EXCEPT ![w] = StartFirst(records[w])]
    /\ UNCHANGED <<ledgerExists, ledger, comps, locks, files, auditLog,
                   now, faults, user, ses>>

\* AnnotatorWorksetManager.get_next_poem when every poem of the current
\* workset is done: _complete_workset, then _get_next_workset
CompleteWorkset(w) ==
    /\ HasStatus(records[w], "in_progress")
    /\ LET k == records[w][FirstWith(records[w], "in_progress")].workset
       IN /\ <<w, k>> \in files
          /\ records' = [records EXCEPT ![w] = StartFirst(MarkCompleted(records[w], k))]
    /\ UNCHANGED <<ledgerExists, ledger, comps, locks, files, auditLog,
                   now, faults, user, ses>>

\* ------------------------------------------------------------- environment
Tick ==
    /\ now < MaxTime
    /\ now' = now + 1
    /\ UNCHANGED <<storeVars, faults, user, ses>>

\* cleanup_expired_locks (run on page load by any worker)
Sweep ==
    /\ \E l \in locks : Expired(l, now)
    /\ locks' = {l \in locks : ~Expired(l, now)}
    /\ UNCHANGED <<records, ledgerExists, ledger, comps, files, auditLog,
                   now, faults, user, ses>>

\* ---------------------------------------------------------- initial states
DoneRow(k) == [workset |-> k, status |-> "completed", auto |-> TRUE]
\* h earlier annotators (workers 3..) were assigned workset 1 and finished it.
InitStore(h) ==
    /\ records = [w \in Workers |-> IF w \in 3..(2 + h) THEN <<DoneRow(1)>> ELSE <<>>]
    /\ ledgerExists = (h > 0)
    /\ ledger = IF h > 0 THEN DictPut(EmptyDict, 1, h) ELSE EmptyDict
    /\ files = {<<w, 1>> : w \in 3..(2 + h)}
    /\ auditLog = [i \in 1..h |-> <<2 + i, 1>>]
    /\ comps = {}
    /\ locks = {}

InitSessions ==
    /\ user \in {u \in [Sessions -> {1, 2}] : u[1] = 1}
    /\ ses = [p \in Sessions |-> Fresh]
    /\ now = 0

Init ==
    /\ \E h \in {0, 2} : InitStore(h)
    /\ InitSessions
    /\ faults = 0

StepScan(p) ==
    \/ RequestNewWorkset(p)
    \/ FindAvailable(p)

StepAcquire(p) ==
    \/ Announce(p)
    \/ Settle(p)
    \/ WriteLock(p)
    \/ CleanupCompetition(p)
    \/ DeleteOwn(p)

StepCommit(p) ==
    \/ Verify(p)
    \/ CheckCompleted(p)
    \/ RealTimeCount(p)
    \/ IncrementRead(p)
    \/ IncrementWrite(p)
    \/ AddRowRead(p)
    \/ AddRowWrite(p)
    \/ Materialize(p)
    \/ LogAssignment(p)

StepRollback(p) ==
    \/ RollbackRead(p)
    \/ RollbackWrite(p)
    \/ RemoveRowRead(p)
    \/ RemoveRowWrite(p)

StepRelease(p) ==
    \/ ReleaseRead(p)
    \/ ReleaseDelete(p)
    \/ Continue(p)

Annotate ==
    \E w \in {1, 2} : StartWorkset(w) \/ CompleteWorkset(w)

\* Concurrent sessions requesting within one reading of the clock, no store
\* failures, interleaved with the annotation flow.
Next ==
    \/ \E p \in Sessions : StepScan(p) \/ StepAcquire(p) \/ StepCommit(p)
                           \/ StepRelease(p)
    \/ Annotate

Spec == Init /\ [][Next]_vars

\* ---------------------------------------------------------- store failures
\* One request at a time, with up to MaxFaults failing store operations.
Quiet(p) == \A q \in Sessions \ {p} : ses[q].pc \in {"idle", "done"}

InitFaults ==
    /\ \E h \in {0, 2} : InitStore(h)
    /\ InitSessions
    /\ faults = MaxFaults

\* A call begins when no other call is running.
StartAlone(p) == Quiet(p) /\ RequestNewWorkset(p)

NextFaults ==
    \/ \E p \in Sessions : StartAlone(p) \/ FindAvailable(p) \/ StepAcquire(p)
                           \/ StepCommit(p) \/ StepRollback(p)
                           \/ StepRelease(p)
    \/ Annotate

SpecFaults == InitFaults /\ [][NextFaults]_vars

\* ------------------------------------------------------- lock manager alone
\* The callers of the Lock Manager: request_new_workset picks a workset
\* (lines 37-45; here any workset), calls the acquire, and after a successful
\* acquire runs its critical section (lines 46-55) and the release.
ChooseCandidate(p) ==
    /\ ses[p].pc = "idle"
    /\ \E k \in Worksets :
        Set(p, [ses[p] EXCEPT !.pc = "announce", !.cand = k])
    /\ UNCHANGED <<storeVars, now, faults, user>>

CriticalSection(p) ==
    /\ ses[p].pc = "verify"
    /\ Set(p, ToRelease(ses[p], TRUE))
    /\ UNCHANGED <<storeVars, now, faults, user>>

\* The process of a session ends while it holds the lock.
Crash(p) ==
    /\ ses[p].pc = "verify"
    /\ Set(p, [ses[p] EXCEPT !.pc = "crashed"])
    /\ UNCHANGED <<storeVars, now, faults, user>>

InitLock ==
    /\ InitStore(0)
    /\ InitSessions
    /\ faults = 0

NextLock ==
    \/ \E p \in Sessions : ChooseCandidate(p) \/ StepAcquire(p)
                           \/ CriticalSection(p) \/ StepRelease(p) \/ Crash(p)
    \/ Tick
    \/ Sweep

SpecLock == InitLock /\ [][NextLock]_vars
\* cleanup_expired_locks runs on every page load and the clock advances.
FairLock == SpecLock /\ WF_vars(Tick) /\ WF_vars(Sweep)

\* ------------------------------------------------------ usage ledger alone
\* The ledger operations on their own, on Task Records and a ledger in any
\* condition (the admin page edits records without touching the ledger, and
\* the ledger object can be deleted from the bucket).
MaxRows == 2
RowChoices ==
    {[workset |-> k, status |-> st, auto |-> TRUE] :
        k \in Worksets, st \in {"not_started", "completed"}}
\* Records of up to MaxRows rows with at most one row not completed, and that
\* row the last.
RecordChoices ==
    {rec \in UNION {[1..n -> RowChoices] : n \in 0..MaxRows} :
        \A i \in 1..(Len(rec) - 1) : rec[i].status = "completed"}
LedgerChoices == [Worksets -> {0, 1, UsageCap}]

\* get_usage_summary -> _get_usage_statistics, run to its return
GetUsage(p) ==
    /\ ses[p].pc = "idle"
    /\ \E c \in GetChoices :
        /\ faults' = faults - GetBad(c)
        /\ ledger' = LedgerAfterGet(c.o, c.unread, c.uo)
        /\ ledgerExists' = LedgerExistsAfterGet(c.o, c.uo)
        /\ Set(p, [Fresh EXCEPT !.pc = IF Regenerates(c.o) THEN "got_missing"
                                                            ELSE "got",
                                !.usage = GetUsageStatistics(c.o, c.unread),
                                !.recAt = records,
                                !.stored = LedgerAfterGet(c.o, c.unread, c.uo)])
    /\ UNCHANGED <<records, comps, locks, files, auditLog, now, user>>

\* force_regenerate_usage_statistics: delete the ledger, then regenerate
ForceRegenerate(p) ==
    /\ ses[p].pc = "idle"
    /\ \E unread \in ScanSets :
        /\ faults' = faults - BadScan(unread)
        /\ ledger' = GenerateUsage(unread)
        /\ ledgerExists' = TRUE
        /\ Set(p, [Fresh EXCEPT !.pc = "regenerated",
                                !.usage = GenerateUsage(unread),
                                !.recAt = records,
                                !.stored = GenerateUsage(unread)])
    /\ UNCHANGED <<records, comps, locks, files, auditLog, now, user>>

\* The ledger object is deleted from the bucket.
DeleteLedger ==
    /\ ledgerExists
    /\ ledgerExists' = FALSE
    /\ ledger' = EmptyDict
    /\ UNCHANGED <<records, comps, locks, files, auditLog, now, faults, user, ses>>

\* admin_page.manage_annotator_tasks: "Assign Workset" appends a row for a
\* workset the record does not hold
AdminAssign(w, k) ==
    /\ ~HasRow(records[w], k)
    /\ Len(records[w]) < MaxRows
    /\ records' = [records EXCEPT ![w] =
            Append(@, [workset |-> k, status |-> "not_started", auto |-> FALSE])]
    /\ files' = files \cup {<<w, k>>}
    /\ UNCHANGED <<ledgerExists, ledger, comps, locks, auditLog, now, faults,
                   user, ses>>

InitLedger ==
    /\ records \in {r \in [Workers -> RecordChoices] :
                        /\ r[2] \in {<<>>, <<DoneRow(1)>>}
                        /\ r[3] \in {<<>>, <<DoneRow(1)>>}
                        /\ r[4] = <<>>}
    /\ ledgerExists \in BOOLEAN
    /\ ledger \in IF ledgerExists THEN LedgerChoices ELSE {EmptyDict}
    /\ files = {}
    /\ auditLog = <<>>
    /\ comps = {}
    /\ locks = {}
    /\ user = [p \in Sessions |-> 1]
    /\ ses = [p \in Sessions |-> Fresh]
    /\ now = 0
    /\ faults = 0

NextLedger ==
    \/ \E p \in Sessions : GetUsage(p) \/ ForceRegenerate(p) \/ StepScan(p)
    \/ DeleteLedger
    \/ \E k \in Worksets : AdminAssign(4, k)

SpecLedger == InitLedger /\ [][NextLedger]_vars

\* ------------------------------------------------------ the increment alone
\* _update_usage_statistics_safely as step 5c calls it: with the full-scan
\* count of a workset below the cap, on a ledger in any condition. One
\* increment runs at a time; the admin page may add a row at any moment.
Mutating(p) == ses[p].pc \in {"c5c_read", "c5c_write", "rb_read", "rb_write"}
CallIncrement(p) ==
    /\ ses[p].pc = "idle"
    /\ \A q \in Sessions : ~Mutating(q)
    /\ \E k \in Worksets :
        /\ RealTimeUsageCount(k, {}) < UsageCap
        /\ Set(p, [Fresh EXCEPT !.pc = "c5c_read", !.cand = k,
                                !.expected = RealTimeUsageCount(k, {}),
                                !.stored = ledger])
    /\ UNCHANGED <<storeVars, now, faults, user>>

NextIncrement ==
    \/ \E p \in Sessions : CallIncrement(p) \/ IncrementRead(p)
                           \/ IncrementWrite(p)
    \/ \E k \in Worksets : AdminAssign(4, k)

SpecIncrement == InitLedger /\ [][NextIncrement]_vars

\* ------------------------------------------------------ the decrement alone
\* _rollback_usage_statistics on a ledger as the ledger's writers leave it
\* (missing, or with positive counts for some ids), one ledger update at a
\* time, together with the increment.
PositiveLedgers ==
    UNION {[ks -> 1..UsageCap] : ks \in SUBSET Worksets}
CallDecrement(p) ==
    /\ ses[p].pc = "idle"
    /\ \A q \in Sessions : ~Mutating(q)
    /\ \E k \in Worksets :
        Set(p, [Fresh EXCEPT !.pc = "rb_read", !.cand = k, !.failedAt = "d",
                             !.stored = ledger])
    /\ UNCHANGED <<storeVars, now, faults, user>>

InitDecrement ==
    /\ records \in {r \in [Workers -> RecordChoices] :
                        /\ r[2] \in {<<>>, <<DoneRow(1)>>}
                        /\ r[3] \in {<<>>, <<DoneRow(1)>>}
                        /\ r[4] = <<>>}
    /\ ledgerExists \in BOOLEAN
    /\ ledger \in IF ledgerExists THEN PositiveLedgers ELSE {EmptyDict}
    /\ files = {}
    /\ auditLog = <<>>
    /\ comps = {}
    /\ locks = {}
    /\ user = [p \in Sessions |-> 1]
    /\ ses = [p \in Sessions |-> Fresh]
    /\ now = 0
    /\ faults = 0

NextDecrement ==
    \E p \in Sessions :
        \/ CallIncrement(p) \/ IncrementRead(p) \/ IncrementWrite(p)
        \/ CallDecrement(p) \/ RollbackRead(p) \/ RollbackWrite(p)

SpecDecrement == InitDecrement /\ [][NextDecrement]_vars

\* ------------------------------------------- requests on a part-used workset
\* Workset 1 was assigned to workers 3 and 4 before; the sessions belong to
\* new workers or to worker 3.
InitUsage ==
    /\ InitStore(2)
    /\ user \in {u \in [Sessions -> 1..3] : u[1] = 1}
    /\ ses = [p \in Sessions |-> Fresh]
    /\ now = 0
    /\ faults = 0

SpecRequests == InitUsage /\ [][Next]_vars

\* force_regenerate_usage_statistics run from outside the sessions (its
\* return value is not kept)
AdminRegenerate ==
    /\ ledger' = GenerateUsage({})
    /\ ledgerExists' = TRUE
    /\ UNCHANGED <<records, comps, locks, files, auditLog, now, faults, user, ses>>

NextUsage ==
    \/ Next
    \/ AdminRegenerate

SpecUsage == InitUsage /\ [][NextUsage]_vars

\* ------------------------------------------------------ calls that keep going
\* One step of the call of session p.
SessionStep(p) ==
    \/ StepScan(p)
    \/ StepAcquire(p)
    \/ StepCommit(p)
    \/ StepRollback(p)
    \/ StepRelease(p)

\* Either concurrent calls of any two workers on a reliable store, or the
\* calls of worker 3 (who completed workset 1) and worker 1 with one failing
\* store operation.
InitRetry ==
    \/ Init
    \/ /\ InitStore(2)
       /\ user = [p \in Sessions |-> IF p = 1 THEN 3 ELSE 1]
       /\ ses = [p \in Sessions |-> Fresh]
       /\ now = 0
       /\ faults = 1

NextRetry ==
    \/ \E p \in Sessions : SessionStep(p)
    \/ Annotate

SpecRetry == InitRetry /\ [][NextRetry]_vars
\* The Streamlit script of a session runs on once started: no call is
\* suspended forever between two of its statements.
FairRetry == SpecRetry /\ \A p \in Sessions : WF_vars(SessionStep(p))

\* ------------------------------------------------- calls without annotation
\* The concurrent calls alone: no worker starts or finishes a workset while
\* the calls run.
NextCalls ==
    \E p \in Sessions : StepScan(p) \/ StepAcquire(p) \/ StepCommit(p)
                         \/ StepRelease(p)

SpecCalls == InitUsage /\ [][NextCalls]_vars

\* ------------------------------------------- an abandoned competition record
\* The process of session 1 may end between the upload of its competition
\* record and _win_competition; the other sessions run on.
Abandon ==
    /\ ses[1].pc = "settle"
    /\ Set(1, [ses[1] EXCEPT !.pc = "abandoned"])
    /\ UNCHANGED <<storeVars, now, faults, user>>

CallStep(p) == StepScan(p) \/ StepAcquire(p) \/ StepCommit(p) \/ StepRelease(p)

NextAbandon ==
    \/ \E p \in Sessions : CallStep(p)
    \/ Abandon

SpecAbandon == Init /\ [][NextAbandon]_vars
FairAbandon == SpecAbandon /\ \A p \in Sessions : WF_vars(CallStep(p))

\* ================================================================== claims
RowCount(w, k) == Cardinality(RowsOf(records[w], k))
WorkersWith(k) == {w \in Workers : HasRow(records[w], k)}

\* A session between the True of the acquire and the end of its release
\* (a crashed holder never released).
HoldPcs == {"verify", "c5a", "c5b", "c5c_read", "c5c_write", "c5d_read",
            "c5d_write", "c5e", "c5f", "rb_read", "rb_write", "rm_read",
            "rm_write", "rel_read", "rel_del", "crashed"}
Holds(p, k) == ses[p].pc \in HoldPcs /\ ses[p].cand = k

\* C1: cap invariant: at all times every workset id is in the Task Record of
\* at most 3 distinct workers.
C1_CapInvariant ==
    \A k \in Worksets : Cardinality(WorkersWith(k)) <= UsageCap

\* C2: no-repeat invariant: a request made after the worker's record held a
\* completed row for a workset neither appends a row for that workset to the
\* record nor returns it.
Appended(p) == ses[p].pc \in {"c5e", "c5f"}
C2_NoRepeat ==
    \A p \in Sessions :
        /\ Appended(p) => ses[p].cand \notin ses[p].doneAtCall
        /\ ses[p].result \notin ses[p].doneAtCall

\* C3: no-duplicate invariant: no Task Record holds two rows with the same
\* workset id.
C3_NoDuplicate ==
    \A w \in Workers, k \in Worksets : RowCount(w, k) <= 1

\* C4: single-active-workset invariant: a Task Record holds at most one
\* assigner-added row whose status is not_started or in_progress.
ActiveAutoRows(rec) ==
    {i \in 1..Len(rec) :
        rec[i].auto /\ rec[i].status \in {"not_started", "in_progress"}}
C4_SingleActive ==
    \A w \in Workers : Cardinality(ActiveAutoRows(records[w])) <= 1

\* C5: lock mutual exclusion: two distinct requests never both hold the lock
\* of one workset (acquire returned True, not yet released) while both leases
\* are unexpired.
C5_MutualExclusion ==
    \A p, q \in Sessions, k \in Worksets :
        (p # q /\ Holds(p, k) /\ Holds(q, k)) =>
            (now > ses[p].leaseExp \/ now > ses[q].leaseExp)

\* C6: settle rule: on a non-empty set of visible competition records a
\* requester declares itself winner exactly when its own record is the minimum
\* by timestamp, ties broken by the competitor id; two requesters that settled
\* on the same set never both win.
Settled(p) == ses[p].pc \in {"lockput", "delown"}
TsCidLeq(a, b) ==
    \/ a.timestamp < b.timestamp
    \/ /\ a.timestamp = b.timestamp
       /\ \/ a.owner < b.owner
          \/ a.owner = b.owner /\ a.ms < b.ms
          \/ a.owner = b.owner /\ a.ms = b.ms /\ a.rnd <= b.rnd
IsMinimum(c, S) == c \in S /\ \A d \in S : TsCidLeq(c, d)
C6_SettleRule ==
    \A p \in Sessions :
        (Settled(p) /\ ses[p].seen # {}) =>
            /\ ses[p].won <=> IsMinimum(ses[p].myComp, ses[p].seen)
            /\ \A q \in Sessions \ {p} :
                (Settled(q) /\ ses[q].seen = ses[p].seen) =>
                    ~(ses[p].won /\ ses[q].won)
\* Two requesters settled on the same two records of equal timestamp and
\* exactly one of them won.
C6_Witness ==
    \E p, q \in Sessions :
        /\ p # q /\ Settled(p) /\ Settled(q)
        /\ ses[p].seen = ses[q].seen
        /\ Cardinality(ses[p].seen) = 2
        /\ \A c, d \in ses[p].seen : c.timestamp = d.timestamp
        /\ ses[p].won /\ ~ses[q].won

Expirable(k) == \E l \in locks : l.workset = k /\ l.expires_at < MaxTime
Uncontended(p) == Settled(p) /\ ses[p].seen = {ses[p].myComp}
C8_LockLiveness ==
    /\ \A k \in Worksets : Expirable(k) ~> ~Expirable(k)
    /\ [](\A p \in Sessions : Uncontended(p) => ses[p].won)
\* B crashed holding the lock of K, its lease ran out, the sweep removed the
\* lock, and a session of another worker making its first acquire of K has won.
C8_Witness ==
    \E b, c \in Sessions :
        /\ user[b] # user[c]
        /\ ses[b].pc = "crashed"
        /\ now > ses[b].leaseExp
        /\ LockOf(ses[b].cand) = NoLock
        /\ ses[c].pc = "lockput" /\ ses[c].cand = ses[b].cand
        /\ Uncontended(c) /\ ses[c].won

\* C9: rollback completeness: when commit step d or e failed, at the return of
\* the commit the ledger count and the full-scan count of the candidate are
\* what they were before the commit and the worker's record has no row for it.
CommitFailedAtDE(p) == ses[p].pc = "rel_read" /\ ses[p].failedAt \in {"d", "e"}
C9_RollbackComplete ==
    \A p \in Sessions :
        CommitFailedAtDE(p) =>
            /\ DictGet(ledger, ses[p].cand) = ses[p].preLedger
            /\ RealTimeUsageCount(ses[p].cand, {}) = ses[p].preScan
            /\ ~HasRow(records[user[p]], ses[p].cand)

\* C10: commit atomicity after step 5c: a commit whose ledger increment
\* succeeded ends either completed (it returned success and the worker's record
\* has the row) or with a rollback decrement applied to the ledger.
CommitEnded(p) == ses[p].pc = "rel_read"
C10_CommitAtomic ==
    \A p \in Sessions :
        (CommitEnded(p) /\ ses[p].incOk) =>
            \/ ses[p].okCommit /\ HasRow(records[user[p]], ses[p].cand)
            \/ ses[p].rbApplied
\* C11: ledger get on a missing ledger: a get that finds no ledger object
\* persists a ledger and returns, for every workset id, the number of distinct
\* workers whose Task Record has a row for the id, whatever the rows' status
\* and however many rows one worker has for it.
Tally(recs, k) ==
    Cardinality({w \in Workers : \E i \in 1..Len(recs[w]) : recs[w][i].workset = k})
C11_GetOnMissingLedger ==
    [][\A p \in Sessions :
        (ses[p].pc = "idle" /\ ses'[p].pc = "got_missing") =>
            /\ ledgerExists'
            /\ \A k \in Worksets :
                /\ DictGet(ledger', k) = Tally(records, k)
                /\ DictGet(ses'[p].usage, k) = Tally(records, k)]_vars
\* A get regenerated a count of 2 for an id that one worker has in two rows.
C11_Witness ==
    \E p \in Sessions, k \in Worksets, w \in Workers :
        /\ ses[p].pc = "got_missing"
        /\ DictGet(ses[p].usage, k) = 2
        /\ Cardinality(RowsOf(ses[p].recAt[w], k)) = 2

\* C12: regeneration idempotence: two regenerations that ran on the same Task
\* Records returned the same counts and left the same persisted ledger,
\* whatever the ledger held before.
Regenerated(p) == ses[p].pc \in {"regenerated", "got_missing"}
C12_RegenerateIdempotent ==
    \A p, q \in Sessions :
        (Regenerated(p) /\ Regenerated(q) /\ ses[p].recAt = ses[q].recAt) =>
            /\ ses[p].usage = ses[q].usage
            /\ ses[p].stored = ses[q].stored
            /\ ses[p].stored = ses[p].usage
\* Two forced regenerations ran on the same non-empty Task Records.
C12_Witness ==
    \E p, q \in Sessions :
        /\ p # q
        /\ ses[p].pc = "regenerated" /\ ses[q].pc = "regenerated"
        /\ ses[p].recAt = ses[q].recAt
        /\ ses[p].usage # EmptyDict
\* C13: ledger cap invariant: every count stored in the usage ledger is at
\* most 3.
C13_LedgerCap ==
    \A k \in Worksets : DictGet(ledger, k) <= UsageCap

\* C14: ledger monotonicity: the stored count of a workset id never goes down
\* from one ledger write to the next, except by the rollback decrement of a
\* commit of that id.
RollbackOf(p, k) ==
    ses[p].pc = "rb_write" /\ ses'[p].pc # "rb_write" /\ ses[p].cand = k
C14_LedgerMonotone ==
    [][\A k \in Worksets :
        DictGet(ledger', k) < DictGet(ledger, k) =>
            \E p \in Sessions : RollbackOf(p, k)]_vars
\* C15: concurrent saturation: workset 1 has one assignment left below the cap
\* (two of the concurrent callers already returned with it) and the remaining
\* callers are distinct workers without records; when all calls have returned,
\* exactly three workers hold workset 1 and the last caller was given
\* workset 2.
AllReturned == \A p \in Sessions : ses[p].pc = "done"
FreshCallers ==
    /\ \A p \in Sessions : user[p] \in {1, 2}
    /\ \A p, q \in Sessions : p # q => user[p] # user[q]
C15_Saturation ==
    (FreshCallers /\ AllReturned) =>
        /\ Cardinality(WorkersWith(1)) = UsageCap
        /\ Cardinality({p \in Sessions : ses[p].result = 1}) = 1
        /\ Cardinality({p \in Sessions : ses[p].result = 2}) = 1
\* C16: candidate selection: the scan returns the lowest-numbered workset id
\* whose ledger count is below 3 and for which the worker has no completed
\* row, and returns no candidate exactly when there is no such id.
Survivors(p) ==
    {k \in Worksets :
        /\ DictGet(ledger', k) < UsageCap
        /\ ~\E i \in 1..Len(records[user[p]]) :
                /\ records[user[p]][i].workset = k
                /\ records[user[p]][i].status = "completed"}
C16_CandidateSelection ==
    [][\A p \in Sessions :
        (ses[p].pc = "find" /\ ses'[p].pc # "find") =>
            IF Survivors(p) = {}
            THEN ses'[p].pc = "done" /\ ses'[p].result = NoWorkset
            ELSE /\ ses'[p].pc = "announce"
                 /\ ses'[p].cand \in Survivors(p)
                 /\ \A k \in Survivors(p) : ses'[p].cand <= k]_vars
\* The worker completed workset 1, whose ledger count is 1, and the scan gave
\* workset 2.
C16_Witness ==
    \E p \in Sessions :
        /\ ses[p].pc = "announce" /\ ses[p].cand = 2
        /\ HasCompleted(records[user[p]], 1)
        /\ ledgerExists /\ DictGet(ledger, 1) = 1

\* C17: bounded retry and termination: every request_new_workset call ends
\* after at most max_attempts scan-lock-verify-commit attempts, whatever the
\* competing calls do and whichever store operation fails; the acquire goes
\* through its settle step once per attempt and no step of a call waits for
\* anything (a lock included) before it can run.
Running(p) == ses[p].pc \notin {"idle", "done"}
AttemptsBounded ==
    \A p \in Sessions :
        /\ ses[p].attempt <= max_attempts
        /\ Running(p) => ses[p].attempt < max_attempts
NeverWaits == \A p \in Sessions : Running(p) => ENABLED SessionStep(p)
SingleSettle ==
    \A p \in Sessions :
        /\ (ses'[p].pc = "settle" /\ ses[p].pc # "settle") =>
               ses[p].pc = "announce"
        /\ (ses[p].pc = "settle" /\ ses'[p] # ses[p]) =>
               ses'[p].pc \in {"lockput", "delown"}
        /\ (ses[p].pc = "announce" /\ ses'[p] # ses[p]) =>
               \/ ses'[p].pc = "settle" /\ ses'[p].attempt = ses[p].attempt
               \/ ses'[p].attempt = ses[p].attempt + 1
Terminates == \A p \in Sessions : Running(p) ~> (ses[p].pc = "done")
C17_BoundedRetry ==
    /\ []AttemptsBounded
    /\ []NeverWaits
    /\ [][SingleSettle]_vars
    /\ Terminates
\* A call that lost the competition in every one of its attempts and gave up.
C17_Witness ==
    \E p \in Sessions :
        /\ ses[p].pc = "done" /\ ses[p].attempt = max_attempts
        /\ ses[p].result = NoWorkset
        /\ faults = 0

\* C18: outcome distinction: the result of request_new_workset tells
\* exhaustion (the scan found every workset at the cap or completed by the
\* worker) from transient failure (the attempts used up): a call that gave up
\* after max_attempts attempts does not return what a call that found no
\* workset returns, and the page does not report it as "no worksets".
Exhausted(p) == ses[p].pc = "done" /\ ses[p].shown = "no_worksets"
GaveUp(p) == ses[p].pc = "done" /\ ses[p].shown = "unable"
C18_OutcomeDistinction ==
    \A p \in Sessions :
        GaveUp(p) =>
            /\ PageMessage(ses[p].result) # "no_worksets"
            /\ \A q \in Sessions : Exhausted(q) => ses[q].result # ses[p].result

\* C19: success postcondition: when request_new_workset(W) returns workset K,
\* W's Task Record holds exactly one row for K, with status not_started, the
\* ledger count of K is one higher than the count the commit read at its
\* verification, W's materialized file for K exists, and the full scan of K
\* was below the cap when the commit made its first write.
Returns(p) ==
    ses[p].pc = "rel_end" /\ ses'[p].pc = "done" /\ ses'[p].result # NoWorkset
CommitWrites(p) == ses[p].pc = "c5c_write" /\ ses'[p].pc = "c5d_read"
PostSuccess(p) ==
    LET K == ses[p].cand
        W == user[p]
    IN /\ Cardinality(RowsOf(records'[W], K)) = 1
       /\ \A i \in RowsOf(records'[W], K) : records'[W][i].status = "not_started"
       /\ ledgerExists' /\ DictGet(ledger', K) = ses[p].expected + 1
       /\ <<W, K>> \in files'
C19_SuccessPostcondition ==
    [][\A p \in Sessions :
          /\ Returns(p) => PostSuccess(p)
          /\ CommitWrites(p) =>
                 RealTimeUsageCount(ses[p].cand, {}) < UsageCap]_vars

\* C20: pending-work fail-fast: when the worker's Task Record holds a
\* not_started or in_progress row, request_new_workset returns no assignment
\* and writes no competition record, formal lock, ledger, Task Record,
\* materialized file or audit-log entry.
PendingRows(w) ==
    {i \in 1..Len(records[w]) :
        records[w][i].status \in {"not_started", "in_progress"}}
C20_PendingFailFast ==
    [][\A p \in Sessions :
          (/\ ses[p].pc = "idle" /\ ses'[p].pc # "idle"
           /\ PendingRows(user[p]) # {}) =>
              /\ ses'[p].pc = "done"
              /\ ses'[p].result = NoWorkset
              /\ UNCHANGED storeVars]_vars
\* A call that returned at once because of a row still to be annotated.
C20_Witness ==
    \E p \in Sessions :
        /\ ses[p].pc = "done" /\ ses[p].shown = "unfinished"
        /\ ses[p].attempt = 0 /\ ses[p].result = NoWorkset
        /\ PendingRows(user[p]) # {}

\* C21: the audit log is best-effort: once steps a-e of the commit have
\* succeeded the commit reports success whether or not the audit-log append
\* succeeds, no rollback follows, and the ledger increment, the record row and
\* the materialized file are in place when the commit has reported.
Logged(p) == ses[p].pc = "c5f" /\ ses'[p].pc # "c5f"
Committed(p) == ses[p].pc \in {"rel_read", "rel_del", "rel_end"} /\ ses[p].okCommit
InPlace(p) ==
    /\ HasRow(records[user[p]], ses[p].cand)
    /\ <<user[p], ses[p].cand>> \in files
    /\ ledgerExists /\ DictGet(ledger, ses[p].cand) >= 1
C21_AuditBestEffort ==
    /\ [][\A p \in Sessions :
             Logged(p) =>
                 /\ ses'[p].pc = "rel_read" /\ ses'[p].okCommit
                 /\ UNCHANGED <<records, ledgerExists, ledger, files>>]_vars
    /\ [](\A p \in Sessions : Committed(p) => InPlace(p))
\* A commit that reported success although its audit-log entry was not stored.
C21_Witness ==
    \E p \in Sessions :
        /\ Committed(p) /\ InPlace(p)
        /\ \A i \in 1..Len(auditLog) : auditLog[i] # <<user[p], ses[p].cand>>

\* C22: a store failure during acquire means 'did not win': when the put of
\* the competition record, the list/get of the competition records or the put
\* of the formal lock fails, the acquire returns False: the call does not go on
\* to write the lock, to verify or to commit in that attempt.
AcquireStepFailed(p) ==
    /\ ses[p].pc \in {"announce", "settle", "lockput"}
    /\ ses'[p] # ses[p]
    /\ faults' < faults
C22_FailureMeansLost ==
    [][\A p \in Sessions :
          AcquireStepFailed(p) => ses'[p].pc \in {"delown", "find", "done"}]_vars

\* C23: no failure escapes the Assigner: whichever store operation fails, the
\* call goes on at a statement of the Assigner, and it returns a value: a
\* workset id with the success message, or no assignment with one of the
\* three other messages.
AssignerPcs ==
    {"find", "announce", "settle", "lockput", "cleanup", "delown", "verify",
     "c5a", "c5b", "c5c_read", "c5c_write", "c5d_read", "c5d_write", "c5e",
     "c5f", "rb_read", "rb_write", "rm_read", "rm_write", "rel_read",
     "rel_del", "rel_end", "done"}
Returned(p) == ses[p].pc = "done"
ReturnsValue ==
    \A p \in Sessions :
        Returned(p) =>
            \/ ses[p].result \in Worksets /\ ses[p].shown = "assigned"
            \/ /\ ses[p].result = NoWorkset
               /\ ses[p].shown \in {"unfinished", "no_worksets", "unable"}
FailureHandled ==
    \A p \in Sessions :
        (ses'[p] # ses[p] /\ faults' < faults) => ses'[p].pc \in AssignerPcs
C23_NoFailureEscapes ==
    /\ []ReturnsValue
    /\ [][FailureHandled]_vars
    /\ \A p \in Sessions : (ses[p].pc = "find") ~> Returned(p)
\* A call that returned in a run in which a store operation failed (the run
\* of workers 3 and 1).
C23_Witness ==
    \E p \in Sessions :
        /\ Returned(p) /\ ses[p].shown # "unfinished"
        /\ user[1] = 3 /\ faults = 0

\* C24: nothing is mutated before step 5c: the verification and the commit
\* steps 5a and 5b of a call, aborting or not, leave the Usage Ledger, every
\* Task Record and every materialized file unchanged; so an attempt aborted
\* by one of them has mutated none of these.
PreCommitStep(p) ==
    ses[p].pc \in {"verify", "c5a", "c5b"} /\ ses'[p] # ses[p]
C24_EarlyAbortFrame ==
    [][\A p \in Sessions :
          PreCommitStep(p) =>
              UNCHANGED <<ledgerExists, ledger, records, files>>]_vars
\* An attempt aborted at step 5b: the full scan found the candidate at the cap.
C24_Witness ==
    \E p \in Sessions :
        /\ ses[p].pc = "rel_read" /\ ~ses[p].okCommit /\ ~ses[p].incOk
        /\ ses[p].preScan >= UsageCap
        /\ RealTimeUsageCount(ses[p].cand, {}) >= UsageCap

\* C25: increment cap refusal: the increment fails exactly when the count it
\* is about to store would exceed the cap; on that refusal the persisted count
\* of the id is not raised; on success only the count of the id changes, the
\* counts of all other ids are as they were.
FarApart(a, b) == a - b > 1 \/ b - a > 1
Refusal(p) == ses[p].pc = "c5c_read" /\ ses'[p].pc = "rel_read"
Accepted(p) == ses[p].pc = "c5c_read" /\ ses'[p].pc = "c5c_write"
IncrementStored(p) == ses[p].pc = "c5c_write" /\ ses'[p].pc = "c5d_read"
\* The count the increment adds one to: the persisted one, or the scan count
\* after a regeneration.
CountUsed(p) ==
    IF FarApart(DictGet(ledger, ses[p].cand), ses[p].expected)
    THEN Tally(records, ses[p].cand)
    ELSE DictGet(ledger, ses[p].cand)
RefusedExactlyAboveCap(p) ==
    /\ Refusal(p) => CountUsed(p) + 1 > UsageCap
    /\ Accepted(p) => CountUsed(p) + 1 <= UsageCap
OthersKept(p) ==
    \A j \in Worksets \ {ses[p].cand} :
        DictGet(ledger', j) = DictGet(ses[p].stored, j)
C25_IncrementCapRefusal ==
    [][\A p \in Sessions :
          /\ RefusedExactlyAboveCap(p)
          /\ Refusal(p) =>
                 DictGet(ledger', ses[p].cand) <= DictGet(ledger, ses[p].cand)
          /\ IncrementStored(p) => OthersKept(p)]_vars
\* C25 as it holds: the refusal is exact; when the persisted count is within
\* one of the expected count (no regeneration) a refusal leaves the ledger as
\* it is and a success changes the count of the id only.
C25_IncrementCapRefusalAmended ==
    [][\A p \in Sessions :
          /\ RefusedExactlyAboveCap(p)
          /\ (/\ Refusal(p)
              /\ ~FarApart(DictGet(ledger, ses[p].cand), ses[p].expected)) =>
                 UNCHANGED <<ledgerExists, ledger>>
          /\ (/\ IncrementStored(p)
              /\ ~FarApart(DictGet(ses[p].stored, ses[p].cand), ses[p].expected)) =>
                 OthersKept(p)]_vars
\* An increment refused on a persisted count at the cap, the ledger untouched.
C25_Witness ==
    \E p \in Sessions :
        /\ ses[p].pc = "rel_read" /\ ~ses[p].incOk
        /\ DictGet(ses[p].stored, ses[p].cand) = UsageCap
        /\ ses[p].expected = UsageCap - 1
        /\ ledger = ses[p].stored

\* C26: increment result value: after a successful increment issued by commit
\* step 5c the persisted count of the id equals the full-scan count the commit
\* passed in plus one, also when the persisted count differed from it by one.
C26_IncrementResultValue ==
    [][\A p \in Sessions :
          IncrementStored(p) =>
              DictGet(ledger', ses[p].cand) = ses[p].expected + 1]_vars

\* C27: increment self-healing: when the persisted count of the id differs
\* from the expected count by more than one, the increment replaces the whole
\* ledger by the counts of a fresh scan of all Task Records before adding
\* one: the regenerated ledger is persisted, the ledger the call then stores
\* holds the scan count for every other id and the scan count plus one for
\* the incremented id.
Healing(p) ==
    /\ ses[p].pc = "c5c_read" /\ ses'[p] # ses[p]
    /\ FarApart(DictGet(ledger, ses[p].cand), ses[p].expected)
C27_IncrementSelfHealing ==
    [][\A p \in Sessions :
          /\ Healing(p) =>
                /\ ledgerExists'
                /\ \A j \in Worksets : DictGet(ledger', j) = Tally(records, j)
          /\ (Healing(p) /\ Accepted(p)) =>
                \A j \in Worksets :
                    DictGet(ses'[p].ledBuf, j) =
                        Tally(records, j) + (IF j = ses[p].cand THEN 1 ELSE 0)
          /\ IncrementStored(p) =>
                \A j \in Worksets :
                    DictGet(ledger', j) = DictGet(ses[p].ledBuf, j)]_vars
\* A successful increment that regenerated: another id lost its persisted
\* count for its scan count.
C27_Witness ==
    \E p \in Sessions :
        /\ ses[p].pc = "c5d_read" /\ ses[p].incOk
        /\ FarApart(DictGet(ses[p].stored, ses[p].cand), ses[p].expected)
        /\ DictGet(ledger, ses[p].cand) = ses[p].expected + 1
        /\ \E j \in Worksets \ {ses[p].cand} :
            /\ DictGet(ses[p].stored, j) # DictGet(ledger, j)
            /\ DictGet(ledger, j) = Tally(records, j)

\* C28: decrement keeps counts positive: the decrement lowers the persisted
\* count of the id by exactly one, removes the key when the result is zero or
\* less, changes no other id, and writes nothing when the id is absent or the
\* ledger is missing; no reachable ledger stores a zero or negative count.
DecrementReads(p) == ses[p].pc = "rb_read" /\ ses'[p] # ses[p]
DecrementWrites(p) == ses[p].pc = "rb_write" /\ ses'[p] # ses[p]
CountsPositive == \A k \in DOMAIN ledger : ledger[k] >= 1
C28_DecrementKeepsPositive ==
    /\ [][\A p \in Sessions :
            /\ DecrementReads(p) =>
                  /\ UNCHANGED <<ledgerExists, ledger>>
                  /\ ses'[p].pc = "rb_write" <=>
                         (ledgerExists /\ ses[p].cand \in DOMAIN ledger)
            /\ DecrementWrites(p) =>
                  /\ \A j \in Worksets :
                        DictGet(ledger', j) =
                            DictGet(ledger, j) - (IF j = ses[p].cand THEN 1 ELSE 0)
                  /\ DOMAIN ledger' \ {ses[p].cand} = DOMAIN ledger \ {ses[p].cand}
                  /\ ses[p].cand \in DOMAIN ledger' <=> ledger[ses[p].cand] > 1]_vars
    /\ []CountsPositive
\* A decrement of a count of one has removed the key, the other ids kept.
C28_Witness ==
    \E p \in Sessions :
        /\ ses[p].pc = "rel_read" /\ ses[p].rbApplied
        /\ DictGet(ses[p].stored, ses[p].cand) = 1
        /\ ses[p].cand \notin DOMAIN ledger
        /\ DOMAIN ledger # {}

\* C29: no retry of a rejected candidate: after an attempt on a workset was
\* aborted by a defensive check (full-scan count at or above the cap in step
\* 5b, or the cap refusal of the increment), the later attempts of the same
\* call select a different workset.
Selects(p) == ses[p].pc = "find" /\ ses'[p].pc = "announce"
C29_NoRetryOfRejected ==
    [][\A p \in Sessions :
          Selects(p) => ses'[p].cand \notin ses[p].rejected]_vars

\* C30: competition-record cleanup scope: a requester that lost deletes only
\* its own competition record; a record of another requester is deleted only
\* by a requester that won and wrote the formal lock, and only if it is a
\* record of the workset that requester competed for.
Removed == comps \ comps'
LoserStep(p) == ses[p].pc = "delown" /\ ses'[p] # ses[p]
WinnerCleanup(p) == ses[p].pc = "cleanup" /\ ses'[p] # ses[p]
LockWritten(p) == ses[p].pc = "lockput" /\ ses'[p].pc = "cleanup"
C30_CleanupScope ==
    [][/\ \A c \in Removed :
            \E p \in Sessions :
                \/ LoserStep(p) /\ c = ses[p].myComp
                \/ WinnerCleanup(p) /\ c.workset = ses[p].cand
       /\ \A p \in Sessions :
            /\ LockWritten(p) =>
                  /\ ses[p].won
                  /\ \E l \in locks' :
                        /\ l.workset = ses[p].cand /\ l.owner = user[p]
                        /\ l.ms = ses[p].myComp.ms /\ l.rnd = ses[p].myComp.rnd
            /\ ses'[p].pc = "cleanup" => (ses[p].pc = "cleanup" \/ LockWritten(p))]_vars
\* A winner has deleted the record of a requester that is still waiting to
\* settle for the same workset.
C30_Witness ==
    \E p, q \in Sessions :
        /\ p # q
        /\ ses[p].pc = "verify" /\ ses[p].won
        /\ ses[q].pc = "settle" /\ ses[q].cand = ses[p].cand
        /\ ses[q].myComp \notin comps

\* C31: expiry sweep precision: cleanup_expired_locks deletes a formal lock
\* if and only if the current time is later than its expires_at, which the
\* acquire set to its own time plus the lease; it deletes no unexpired lock
\* and leaves competition records, the ledger and the Task Records unchanged.
SweepStep == locks' # locks /\ UNCHANGED ses
LockedPcs == {"cleanup", "verify", "c5a", "c5b", "c5c_read", "c5c_write",
            "c5d_read", "c5d_write", "c5e", "c5f", "rb_read", "rb_write",
            "rm_read", "rm_write"}
ReleaseRuns(p) ==
    /\ ses[p].pc \in LockedPcs => ses'[p].pc \in LockedPcs \cup {"rel_read"}
    /\ ses[p].pc = "rel_read" => ses'[p].pc \in {"rel_read", "rel_del", "rel_end"}
    /\ ses[p].pc = "rel_del" => ses'[p].pc \in {"rel_del", "rel_end"}
HeldBy(q, l) ==
    /\ ses[q].pc \in LockedPcs \cup {"rel_read", "rel_del"}
    /\ ses[q].cand = l.workset /\ user[q] = l.owner
    /\ ses[q].myComp.ms = l.ms /\ ses[q].myComp.rnd = l.rnd
NoLockLeft(p) ==
    \A l \in locks :
        l.owner = user[p] => \E q \in Sessions \ {p} : HeldBy(q, l)
C32_LockReleased ==
    /\ [][\A p \in Sessions : ReleaseRuns(p)]_vars
    /\ [](\A p \in Sessions : Returned(p) => NoLockLeft(p))
\* A call has returned its workset after a failed attempt, and the store
\* holds no lock of its worker.
C32_Witness ==
    \E p \in Sessions :
        /\ Returned(p) /\ ses[p].result # NoWorkset /\ ses[p].attempt > 0
        /\ \A l \in locks : l.owner # user[p]

\* C33: ledger agrees with the Task Records at quiescence: from a ledger equal
\* to the scan counts, after any interleaving of concurrent calls without
\* store failures, once every call has returned the ledger count of every
\* workset is the number of distinct workers whose Task Record holds it.
C33_LedgerAgreesAtQuiescence ==
    AllReturned => \A k \in Worksets : DictGet(ledger, k) = Tally(records, k)

\* C34: abandoned competition records do not block a workset: when a
\* requester settles for a workset for which a record of a requester that
\* ended after announcing is in the store, eventually some requester wins
\* the competition for that workset.
AbandonedFor(k) ==
    /\ ses[1].pc = "abandoned" /\ ses[1].cand = k
    /\ ses[1].myComp \in comps
WinsFor(k) ==
    \E q \in Sessions : ses[q].cand = k /\ ses[q].won /\ ses[q].pc = "lockput"
C34_AbandonedDoNotBlock ==
    \A p \in Sessions \ {1} : \A k \in Worksets :
        (ses[p].pc = "settle" /\ ses[p].cand = k /\ AbandonedFor(k))
            ~> WinsFor(k)

\* C35: append preserves history: a successful append of a row for a workset
\* to a worker's Task Record leaves every row the record held in place and
\* unchanged and adds exactly one row, also when the read that precedes the
\* append failed.
AppendStored(p) == ses[p].pc = "c5d_write" /\ ses'[p].pc = "c5e"
C35_AppendPreservesHistory ==
    [][\A p \in Sessions :
          AppendStored(p) =>
              LET old == records[user[p]]
                  new == records'[user[p]]
              IN /\ Len(new) = Len(old) + 1
                 /\ \A i \in 1..Len(old) : new[i] = old[i]
                 /\ new[Len(new)].workset = ses[p].cand]_vars

\* C36: conservative handling of unreadable records: when the worker's Task
\* Record exists and its read fails in the pending-work check or in the
\* already-completed check of the commit, the call does not go on towards an
\* assignment in that attempt: the failure is not taken for "no pending work"
\* or "not completed".
UnreadPendingCheck(p) ==
    /\ ses[p].pc = "idle" /\ ses'[p] # ses[p]
    /\ faults' < faults /\ records[user[p]] # <<>>
UnreadCompletedCheck(p) ==
    /\ ses[p].pc = "c5a" /\ ses'[p] # ses[p]
    /\ faults' < faults /\ records[user[p]] # <<>>
C36_UnreadableRecords ==
    [][\A p \in Sessions :
          /\ UnreadPendingCheck(p) => ses'[p].pc = "done"
          /\ UnreadCompletedCheck(p) => ses'[p].pc = "rel_read"]_vars

\* C37: the two usage counters agree: for every state of the Task Records and
\* every workset id, the real-time count of step 5b equals the count a ledger
\* regeneration scan produces for the id (0 when the id is absent), and a
\* regeneration returned those counts for the records it scanned.
C37_CountersAgree ==
    /\ \A k \in Worksets :
        RealTimeUsageCount(k, {}) = DictGet(GenerateUsage({}), k)
    /\ \A p \in Sessions :
        (ses[p].pc = "regenerated" /\ ses[p].recAt = records) =>
            \A k \in Worksets :
                DictGet(ses[p].usage, k) = RealTimeUsageCount(k, {})
\* A regeneration has counted a workset that one worker holds in two rows and
\* another worker in a row not yet completed, and the real-time count is the
\* same two.
C37_Witness ==
    \E p \in Sessions : \E k \in Worksets :
        /\ ses[p].pc = "regenerated" /\ ses[p].recAt = records
        /\ DictGet(ses[p].usage, k) = 2 /\ RealTimeUsageCount(k, {}) = 2
        /\ \E w \in Workers : Cardinality(RowsOf(records[w], k)) = 2
        /\ \E w \in Workers : HasRow(records[w], k) /\ ~HasCompleted(records[w], k)

\* C38: release never removes another request's lock: a release deletes the
\* formal lock of its workset only if that lock carries the competition id of
\* the releasing attempt; a lock written under another competition id, also
\* one of another session of the same worker, stays.
ReleaseDeletes(p) ==
    /\ ses[p].pc = "rel_del" /\ ses'[p].pc = "rel_end"
    /\ locks' # locks
OwnLock(p, l) ==
    /\ l.workset = ses[p].cand /\ l.owner = user[p]
    /\ l.ms = ses[p].myComp.ms /\ l.rnd = ses[p].myComp.rnd
C38_ReleaseOwnLockOnly ==
    [][\A p \in Sessions :
          ReleaseDeletes(p) => \A l \in locks \ locks' : OwnLock(p, l)]_vars

\* C39: rollback row removal is targeted: the compensating removal deletes
\* exactly the row the failing attempt appended (the last row of the record,
\* a row of the candidate); the rows of other worksets and the rows of the
\* candidate that were there before the attempt stay as they are.
RemovalStored(p) ==
    /\ ses[p].pc = "rm_write" /\ ses'[p] # ses[p]
    /\ records' # records
C39_TargetedRemoval ==
    [][\A p \in Sessions :
          RemovalStored(p) =>
              LET old == records[user[p]]
                  new == records'[user[p]]
              IN /\ Len(old) >= 1
                 /\ old[Len(old)].workset = ses[p].cand
                 /\ new = SubSeq(old, 1, Len(old) - 1)]_vars

\* C40: task status only moves forward: under any interleaving of the
\* annotation flow with assignment requests the status of a Task Record row
\* changes only from not_started to in_progress and from in_progress to
\* completed, a completed row stays completed, and no worker has two
\* in_progress rows at once.
Rank(st) == CASE st = "not_started" -> 0 [] st = "in_progress" -> 1
                 [] st = "completed" -> 2
RowsForward(old, new) ==
    \A i \in 1..Len(old) :
        (i <= Len(new) /\ new[i].workset = old[i].workset) =>
            Rank(new[i].status) \in {Rank(old[i].status), Rank(old[i].status) + 1}
InProgressRows(rec) == {i \in 1..Len(rec) : rec[i].status = "in_progress"}
C40_StatusForward ==
    /\ [][\A w \in Workers : RowsForward(records[w], records'[w])]_vars
    /\ [](\A w \in Workers : Cardinality(InProgressRows(records[w])) <= 1)
====
